---------------------------- MODULE Spec2Model ----------------------------
(***************************************************************************)
(* Model of the student engagement / risk analytics backend:               *)
(*   apps/analytics/ml_predictor.py  (RiskPredictor)                       *)
(*   apps/analytics/views.py         (StudentAnalyticsViewSet)             *)
(*   apps/assessments/views.py       (CSVUploadView)                       *)
(*   apps/assessments/admin.py       (admin forms)                         *)
(*                                                                         *)
(* Numbers.  The program computes with Python floats.  The model computes  *)
(* the same expressions exactly, on scaled integers:                       *)
(*   - a percentage p is held in tenths (56.0 is 560), which is the        *)
(*     precision round(p, 1) leaves;                                       *)
(*   - a risk r in [0,1] is held in units of 1e-5 (0.375 is 37500), which  *)
(*     is exact for weights in hundredths applied to tenths of a percent;  *)
(*   - a reported risk_score round(r, 2) is held in hundredths.            *)
(* round() is round-half-to-even, Python's rule on exactly representable   *)
(* values.  The binary rounding error of the float operations themselves   *)
(* (an exact 0.30 computed as 0.29999999999999993) is not modelled.        *)
(***************************************************************************)
EXTENDS Integers, Sequences, FiniteSets, TLC

VARIABLES
    pipeline,            \* RiskPredictor.pipeline: None or the loaded estimator
    constructed,         \* RiskPredictor.__init__ has run load_model
    attendance,          \* table attendance
    submissions,         \* table assignment_submissions
    quiz_scores,         \* table quiz_scores
    lab_participation,   \* table lab_participation
    args,                \* the figures the risk operations are applied to
    call,                \* the last operation called, with its inputs
    result,              \* what that operation returned
    uploads,             \* the attendance uploads in progress, by entry point
    email_otps,          \* table email_otps, oldest row first
    accounts,            \* emails of the users created by verify_otp
    otp_requests         \* the OTP requests in progress, by client

vars == <<pipeline, constructed, attendance, submissions, quiz_scores,
          lab_participation, args, call, result, uploads, email_otps,
          accounts, otp_requests>>

\* What the risk and score operations leave alone.
requests == <<uploads, email_otps, accounts, otp_requests>>

\* Python's None.
None == [type |-> "NoneType"]

(***************************************************************************)
(* Arithmetic helpers                                                      *)
(***************************************************************************)
\* round(n / d) to an integer, ties to even (Python's round), for d > 0.
RoundHalfEven(n, d) ==
    LET q == n \div d
        r == n % d
    IN  IF 2 * r < d THEN q
        ELSE IF 2 * r > d THEN q + 1
        ELSE IF q % 2 = 0 THEN q ELSE q + 1

\* One percent, in the tenths a percentage is held in.
Pct(p) == 10 * p

\* 1.0 as a risk, in units of 1e-5.
RiskOne == 1000 * 100

\* round(risk, 2): a risk in units of 1e-5 to hundredths.
Round2(risk) == RoundHalfEven(risk, 1000)

(***************************************************************************)
(* apps/analytics/ml_predictor.py : RiskPredictor                          *)
(***************************************************************************)
HIGH == "HIGH RISK"
MEDIUM == "MEDIUM RISK"
LOW == "LOW RISK"

\* Thresholds of RiskPredictor._get_risk_level, in units of 1e-5.
ModelHighThreshold == 65000
ModelMediumThreshold == 35000

\* Thresholds of RiskPredictor._fallback_prediction, in units of 1e-5.
FallbackHighThreshold == 60000
FallbackMediumThreshold == 30000

\* Thresholds of RiskPredictor._generate_feedback, in percent.
PredAttendanceMin == 75
PredAssignmentMin == 70
PredQuizMin == 70

\* get_risk_level with the two comparisons exchanged.
get_risk_level_Swapped(risk_score) ==
    IF risk_score >= ModelHighThreshold THEN <<MEDIUM, "orange">>
    ELSE IF risk_score >= ModelMediumThreshold THEN <<HIGH, "red">>
    ELSE <<LOW, "green">>

\* RiskPredictor._get_risk_level(risk_score) -> <<level, color>>
get_risk_level(risk_score) ==
    IF risk_score >= ModelHighThreshold THEN <<HIGH, "red">>
    ELSE IF risk_score >= ModelMediumThreshold THEN <<MEDIUM, "orange">>
    ELSE <<LOW, "green">>

\* RiskPredictor._generate_feedback: the fragments, before ' and '.join.
predictor_feedback_parts(quiz_avg, assignment_avg, attendance_rate, risk_level) ==
    LET p1 == IF attendance_rate < Pct(PredAttendanceMin)
              THEN <<"Improve attendance">> ELSE <<>>
        p2 == IF assignment_avg < Pct(PredAssignmentMin)
              THEN <<"Complete assignments">> ELSE <<>>
        p3 == IF quiz_avg < Pct(PredQuizMin)
              THEN <<"Study for quizzes">> ELSE <<>>
        specific == p1 \o p2 \o p3
    IN  IF specific = <<>> /\ risk_level # LOW
        THEN <<"Maintain consistent effort">>
        ELSE specific

\* RiskPredictor._generate_feedback: the text, as the list of its fragments.
predictor_generate_feedback(quiz_avg, assignment_avg, attendance_rate, risk_level) ==
    LET parts == predictor_feedback_parts(quiz_avg, assignment_avg,
                                          attendance_rate, risk_level)
    IN  IF parts = <<>> THEN <<"Keep up the excellent work!">> ELSE parts

\* fallback_risk with the weights of quizzes and attendance exchanged.
fallback_risk_Reweighted(quiz_avg, assignment_avg, attendance_rate) ==
    RiskOne - (30 * quiz_avg + 35 * assignment_avg + 35 * attendance_rate)

\* RiskPredictor._fallback_prediction: overall = 0.35 q + 0.35 a + 0.30 t,
\* risk = (100 - overall) / 100.
fallback_risk(quiz_avg, assignment_avg, attendance_rate) ==
    RiskOne - (35 * quiz_avg + 35 * assignment_avg + 30 * attendance_rate)

fallback_level(risk_score) ==
    IF risk_score >= FallbackHighThreshold THEN <<HIGH, "red", 1>>
    ELSE IF risk_score >= FallbackMediumThreshold THEN <<MEDIUM, "orange", 1>>
    ELSE <<LOW, "green", 0>>

fallback_prediction(quiz_avg, assignment_avg, attendance_rate) ==
    LET risk_score == fallback_risk(quiz_avg, assignment_avg, attendance_rate)
        lv == fallback_level(risk_score)
    IN  [ raw        |-> risk_score,
          risk_score |-> Round2(risk_score),
          risk_level |-> lv[1],
          risk_color |-> lv[2],
          feedback   |-> predictor_generate_feedback(quiz_avg, assignment_avg,
                                                     attendance_rate, lv[1]),
          prediction |-> lv[3],
          model_used |-> FALSE ]


(***************************************************************************)
(* Python str values are sequences of one-character strings, so that       *)
(* lower() and strip() are computed and not assumed.                       *)
(***************************************************************************)
\* The letters str.lower() changes.
UpperToLower ==
    ("A" :> "a") @@ ("B" :> "b") @@ ("C" :> "c") @@ ("D" :> "d") @@ ("E" :> "e")
    @@ ("F" :> "f") @@ ("G" :> "g") @@ ("H" :> "h") @@ ("I" :> "i") @@ ("J" :> "j")
    @@ ("K" :> "k") @@ ("L" :> "l") @@ ("M" :> "m") @@ ("N" :> "n") @@ ("O" :> "o")
    @@ ("P" :> "p") @@ ("Q" :> "q") @@ ("R" :> "r") @@ ("S" :> "s") @@ ("T" :> "t")
    @@ ("U" :> "u") @@ ("V" :> "v") @@ ("W" :> "w") @@ ("X" :> "x") @@ ("Y" :> "y")
    @@ ("Z" :> "z")

LowerChar(c) == IF c \in DOMAIN UpperToLower THEN UpperToLower[c] ELSE c

\* str.lower()
StrLower(s) == [i \in 1..Len(s) |-> LowerChar(s[i])]

RECURSIVE LStrip(_)
LStrip(s) == IF s # <<>> /\ Head(s) = " " THEN LStrip(Tail(s)) ELSE s

RECURSIVE RStrip(_)
RStrip(s) == IF s # <<>> /\ s[Len(s)] = " "
             THEN RStrip(SubSeq(s, 1, Len(s) - 1)) ELSE s

\* str.strip()
StrStrip(s) == RStrip(LStrip(s))

S_high == <<"h","i","g","h">>
S_high_risk == <<"h","i","g","h"," ","r","i","s","k">>
S_medium == <<"m","e","d","i","u","m">>
S_medium_risk == <<"m","e","d","i","u","m"," ","r","i","s","k">>
S_moderate == <<"m","o","d","e","r","a","t","e">>
S_low == <<"l","o","w">>
S_low_risk == <<"l","o","w"," ","r","i","s","k">>

\* Base risks of RiskPredictor._convert_prediction, in units of 1e-5.
BaseRiskHigh == 80000
BaseRiskMedium == 50000
BaseRiskLow == 20000
BaseRiskDefault == 30000

\* _convert_prediction whose default is the Low pair.
convert_prediction_DefaultLow(prediction) ==
    LET pred_lower == StrStrip(StrLower(prediction.val))
    IN  IF prediction.type = "str" /\ pred_lower \in {S_high, S_high_risk}
            THEN <<1, BaseRiskHigh>>
        ELSE IF prediction.type = "str"
                /\ pred_lower \in {S_medium, S_medium_risk, S_moderate}
            THEN <<1, BaseRiskMedium>>
        ELSE IF prediction.type = "int" /\ prediction.val >= 2
            THEN <<1, BaseRiskHigh>>
        ELSE IF prediction.type = "int" /\ prediction.val = 1
            THEN <<1, BaseRiskMedium>>
        ELSE <<0, BaseRiskLow>>

\* RiskPredictor._convert_prediction(prediction) -> <<prediction_int, base_risk>>.
\* A prediction is [type |-> "str", val |-> chars], [type |-> "int", val |-> n]
\* or a value of another type ([type |-> "float"], [type |-> "NoneType"]).
convert_prediction(prediction) ==
    LET pred_lower == StrStrip(StrLower(prediction.val))
    IN  IF prediction.type = "str" /\ pred_lower \in {S_high, S_high_risk}
            THEN <<1, BaseRiskHigh>>
        ELSE IF prediction.type = "str"
                /\ pred_lower \in {S_medium, S_medium_risk, S_moderate}
            THEN <<1, BaseRiskMedium>>
        ELSE IF prediction.type = "str" /\ pred_lower \in {S_low, S_low_risk}
            THEN <<0, BaseRiskLow>>
        ELSE IF prediction.type = "int"
            THEN IF prediction.val >= 2 THEN <<1, BaseRiskHigh>>
                 ELSE IF prediction.val = 1 THEN <<1, BaseRiskMedium>>
                 ELSE <<0, BaseRiskLow>>
        ELSE <<0, BaseRiskDefault>>

\* _get_risk_score that takes the High probability alone for three classes.
get_risk_score_HighOnly(proba, base_risk) ==
    IF proba.kind = "absent" THEN base_risk
    ELSE IF proba.kind = "raise" THEN base_risk
    ELSE IF Len(proba.p) >= 3 THEN proba.p[3]
    ELSE IF Len(proba.p) = 2 THEN proba.p[2]
    ELSE base_risk

\* RiskPredictor._get_risk_score.  proba is what predict_proba(input)[0] did:
\* [kind |-> "absent"] (the pipeline has no predict_proba), [kind |-> "raise"],
\* or [kind |-> "vector", p |-> the class probabilities, in units of 1e-5].
get_risk_score(proba, base_risk) ==
    IF proba.kind = "absent" THEN base_risk
    ELSE IF proba.kind = "raise" THEN base_risk
    ELSE IF Len(proba.p) >= 3 THEN proba.p[2] + proba.p[3]
    ELSE IF Len(proba.p) = 2 THEN proba.p[2]
    ELSE base_risk

\* The try-block of RiskPredictor.predict_risk, once predict() has returned.
model_prediction(quiz_avg, assignment_avg, attendance_rate, prediction, proba) ==
    LET conv == convert_prediction(prediction)
        risk_score == get_risk_score(proba, conv[2])
        lv == get_risk_level(risk_score)
    IN  [ raw        |-> risk_score,
          risk_score |-> Round2(risk_score),
          risk_level |-> lv[1],
          risk_color |-> lv[2],
          feedback   |-> predictor_generate_feedback(quiz_avg, assignment_avg,
                                                     attendance_rate, lv[1]),
          prediction |-> conv[1],
          model_used |-> TRUE ]

\* predict_risk whose except clause reports the model as used.
predict_risk_result_ExceptAsModel(pl, quiz_avg, assignment_avg, attendance_rate, prediction, proba) ==
    IF pl = None
    THEN fallback_prediction(quiz_avg, assignment_avg, attendance_rate)
    ELSE IF prediction.type = "raise"
    THEN [fallback_prediction(quiz_avg, assignment_avg, attendance_rate)
            EXCEPT !.model_used = TRUE]
    ELSE model_prediction(quiz_avg, assignment_avg, attendance_rate,
                          prediction, proba)

\* RiskPredictor.predict_risk.  prediction is the label predict() returned,
\* or [type |-> "raise"] when predict() (or the [0] on its result) raised.
predict_risk_result(pl, quiz_avg, assignment_avg, attendance_rate, prediction, proba) ==
    IF pl = None
    THEN fallback_prediction(quiz_avg, assignment_avg, attendance_rate)
    ELSE IF prediction.type = "raise"
    THEN fallback_prediction(quiz_avg, assignment_avg, attendance_rate)
    ELSE model_prediction(quiz_avg, assignment_avg, attendance_rate,
                          prediction, proba)

\* RiskPredictor.load_model: what joblib.load and the prints that follow did.
\*   "load_error"     joblib.load raised (no file, bad pickle)
\*   "grid"           a GridSearchCV result: pipeline = loaded.best_estimator_
\*   "grid_bad_score" has best_estimator_, but formatting best_score_ raised:
\*                    the except clause resets the pipeline just assigned
\*   "direct"         any other object: pipeline = loaded
\*   "direct_none"    the pickle holds None: pipeline = None
LoadOutcomes == {"load_error", "grid", "grid_bad_score", "direct", "direct_none"}

\* load_model whose except clause leaves the pipeline it had assigned.
load_model_pipeline_NoReset(outcome, has_proba) ==
    IF outcome \in {"grid", "direct", "grid_bad_score"}
    THEN [predict_proba |-> has_proba]
    ELSE None

load_model_pipeline(outcome, has_proba) ==
    IF outcome \in {"grid", "direct"}
    THEN [predict_proba |-> has_proba]
    ELSE None

(***************************************************************************)
(* apps/analytics/views.py : the dashboard's deterministic risk            *)
(***************************************************************************)
\* WEIGHTS of _calculate_risk_prediction, in hundredths.
WeightAttendance == 25
WeightAssignments == 30
WeightQuizzes == 25
WeightLabs == 20

\* Level thresholds of _calculate_risk_prediction, in units of 1e-5.
DashMediumThreshold == 30000
DashHighThreshold == 60000

\* Feedback thresholds of the views, in percent.
DashAttendanceMin == 60
DashAssignmentMin == 70
DashQuizMin == 60
DashLabMin == 50

\* dashboard_risk with the weights of attendance and assignments exchanged.
dashboard_risk_SwappedWeights(engagement) ==
    WeightAssignments * (Pct(100) - engagement.attendance)
    + WeightAttendance * (Pct(100) - engagement.assignments)
    + WeightQuizzes * (Pct(100) - engagement.quizzes)
    + WeightLabs * (Pct(100) - engagement.lab_activity)

\* The weighted risk of _calculate_risk_prediction, for engagement percentages
\* in tenths: sum of weight * (100 - pct) / 100.
dashboard_risk(engagement) ==
    WeightAttendance * (Pct(100) - engagement.attendance)
    + WeightAssignments * (Pct(100) - engagement.assignments)
    + WeightQuizzes * (Pct(100) - engagement.quizzes)
    + WeightLabs * (Pct(100) - engagement.lab_activity)

dashboard_level(risk_score) ==
    IF risk_score < DashMediumThreshold THEN <<LOW, "green">>
    ELSE IF risk_score < DashHighThreshold THEN <<MEDIUM, "orange">>
    ELSE <<HIGH, "red">>

\* feedback_parts of _calculate_risk_prediction, before " and ".join.
dashboard_risk_feedback(engagement) ==
    LET p1 == IF engagement.attendance < Pct(DashAttendanceMin)
              THEN <<"You must improve your attendance">> ELSE <<>>
        p2 == IF engagement.assignments < Pct(DashAssignmentMin)
              THEN <<"weekly assignments">> ELSE <<>>
        parts == p1 \o p2
    IN  IF parts = <<>> THEN <<"Keep up the good work">> ELSE parts

\* StudentAnalyticsViewSet._calculate_risk_prediction(student, course, engagement)
calculate_risk_prediction(engagement) ==
    LET risk_score == dashboard_risk(engagement)
        lv == dashboard_level(risk_score)
    IN  [ raw        |-> risk_score,
          risk_score |-> Round2(risk_score),
          risk_level |-> lv[1],
          risk_color |-> lv[2],
          feedback   |-> dashboard_risk_feedback(engagement) ]

\* _generate_feedback whose acknowledgement comes without a suggestion.
generate_feedback_AckWithoutSuggestion(engagement) ==
    LET low == [ f \in {"attendance", "assignments", "quizzes", "lab_activity"} |->
                   engagement[f] < Pct(CASE f = "attendance" -> DashAttendanceMin
                                         [] f = "assignments" -> DashAssignmentMin
                                         [] f = "quizzes" -> DashQuizMin
                                         [] f = "lab_activity" -> DashLabMin) ]
        One(f, text) == IF low[f] THEN <<text>> ELSE <<>>
        messages == One("attendance", "You missed several classes this week")
                    \o One("assignments", "Assignment completion is low")
                    \o One("quizzes", "Quiz scores need improvement")
                    \o One("lab_activity", "You missed 2 labs this week")
        suggestions == One("attendance", "Attend all classes to boost performance")
                       \o One("assignments", "Submit all weekly assignments on time")
                       \o One("quizzes", "Review course materials regularly")
                       \o One("lab_activity", "Attend all labs to boost performance")
    IN  IF messages = <<>>
        THEN [message |-> <<"Great work! Keep it up">>, suggestions |-> <<>>]
        ELSE [message |-> messages, suggestions |-> suggestions]

\* StudentAnalyticsViewSet._generate_feedback(engagement)
generate_feedback(engagement) ==
    LET m1 == IF engagement.attendance < Pct(DashAttendanceMin)
              THEN <<"You missed several classes this week">> ELSE <<>>
        s1 == IF engagement.attendance < Pct(DashAttendanceMin)
              THEN <<"Attend all classes to boost performance">> ELSE <<>>
        m2 == IF engagement.assignments < Pct(DashAssignmentMin)
              THEN <<"Assignment completion is low">> ELSE <<>>
        s2 == IF engagement.assignments < Pct(DashAssignmentMin)
              THEN <<"Submit all weekly assignments on time">> ELSE <<>>
        m3 == IF engagement.quizzes < Pct(DashQuizMin)
              THEN <<"Quiz scores need improvement">> ELSE <<>>
        s3 == IF engagement.quizzes < Pct(DashQuizMin)
              THEN <<"Review course materials regularly">> ELSE <<>>
        m4 == IF engagement.lab_activity < Pct(DashLabMin)
              THEN <<"You missed 2 labs this week">> ELSE <<>>
        s4 == IF engagement.lab_activity < Pct(DashLabMin)
              THEN <<"Attend all labs to boost performance">> ELSE <<>>
        messages == m1 \o m2 \o m3 \o m4
        suggestions == s1 \o s2 \o s3 \o s4
    IN  IF messages = <<>>
        THEN [ message     |-> <<"Great work! Keep it up">>,
               suggestions |-> <<"Maintain your current performance level">> ]
        ELSE [ message |-> messages, suggestions |-> suggestions ]

(***************************************************************************)
(* Inputs of the risk operations, drawn from small sets.                   *)
(***************************************************************************)
\* quiz_avg, assignment_avg, attendance_rate given to predict_risk (tenths).
RateSamples == {0, 400, 700, 1000}
LabSamples == {0, 1000}

\* Engagement percentages given to _calculate_risk_prediction (tenths).
EngagementSamples == {0, 250, 400, 450, 560, 650, 800, 850, 1000}

\* lab_activity given to _calculate_risk_prediction: a participation stored
\* with score 6 and max_score 5 makes it 120.0.
LabEngagementSamples == EngagementSamples \cup {1200}

Snapshot(att, asg, quiz, lab) ==
    [attendance |-> att, assignments |-> asg, quizzes |-> quiz, lab_activity |-> lab]

StrPrediction(chars) == [type |-> "str", val |-> chars]
IntPrediction(n) == [type |-> "int", val |-> n]

\* What pipeline.predict(input_data)[0] can do.
PredictOutcomes ==
    { [type |-> "raise"], [type |-> "float"],
      StrPrediction(<<"H","i","g","h">>),
      StrPrediction(<<" ","M","E","D","I","U","M"," ","R","i","s","k"," ">>),
      StrPrediction(<<"m","o","d","e","r","a","t","e">>),
      StrPrediction(<<"L","o","w">>),
      StrPrediction(<<"C","r","i","t","i","c","a","l">>),
      IntPrediction(0), IntPrediction(1), IntPrediction(3) }

Vector(p) == [kind |-> "vector", p |-> p]

\* What pipeline.predict_proba(input_data)[0] can do, when the pipeline has it.
ProbaOutcomes ==
    { [kind |-> "raise"],
      Vector(<<RiskOne>>),
      Vector(<<38000, 62000>>),
      Vector(<<RiskOne, 0, 0>>), Vector(<<0, 0, RiskOne>>),
      Vector(<<68000, 20000, 12000>>), Vector(<<65000, 20000, 15000>>),
      Vector(<<35000, 25000, 40000>>) }

(***************************************************************************)
(* Initial states.  The process has imported the modules, RiskPredictor()  *)
(* is not constructed yet and the tables are empty.                        *)
(***************************************************************************)
\* The entry points of an attendance upload, and an upload not in progress.
Uploaders == {"api", "admin"}
IdleUpload ==
    [ pc |-> "idle", rows |-> <<>>, found |-> FALSE,
      created |-> 0, updated |-> 0, errors |-> 0 ]
NoUploads == [p \in Uploaders |-> IdleUpload]

\* The clients of the registration endpoints, and a request not in progress.
Clients == {"c1", "c2"}
IdleRequest == [pc |-> "idle"]
NoOtpRequests == [c \in Clients |-> IdleRequest]

InitState ==
    /\ pipeline = None
    /\ constructed = FALSE
    /\ attendance = {}
    /\ submissions = {}
    /\ quiz_scores = {}
    /\ lab_participation = {}
    /\ call = [op |-> "none"]
    /\ result = None
    /\ uploads = NoUploads
    /\ email_otps = <<>>
    /\ accounts = {}
    /\ otp_requests = NoOtpRequests

\* The figures of one student, as the risk estimators receive them.
InitRisk ==
    /\ InitState
    /\ \E att \in RateSamples, asg \in RateSamples,
          quiz \in RateSamples, lab \in LabSamples :
          args = Snapshot(att, asg, quiz, lab)

\* An engagement snapshot, as _calculate_risk_prediction receives it.
InitFormula ==
    /\ InitState
    /\ \E att \in EngagementSamples, asg \in EngagementSamples,
          quiz \in EngagementSamples, lab \in LabEngagementSamples :
          args = Snapshot(att, asg, quiz, lab)

tables == <<attendance, submissions, quiz_scores, lab_participation>>

(***************************************************************************)
(* Operations of the risk estimators                                       *)
(***************************************************************************)
\* RiskPredictor.__init__: pipeline = None, then load_model().
load_model ==
    /\ ~constructed
    /\ \E outcome \in LoadOutcomes, has_proba \in BOOLEAN :
          /\ pipeline' = load_model_pipeline(outcome, has_proba)
          /\ call' = [op |-> "load_model", outcome |-> outcome]
    /\ constructed' = TRUE
    /\ result' = None
    /\ UNCHANGED <<tables, args, requests>>

\* ml_predictor.predict_risk(quiz_avg, assignment_avg, attendance_rate).
\* gender only reaches the pipeline, whose answers are drawn freely here.
predict_risk ==
    /\ constructed
    /\ \E prediction \in IF pipeline = None THEN {[type |-> "uncalled"]}
                         ELSE PredictOutcomes :
        \E proba \in IF pipeline = None \/ prediction.type = "raise"
                        THEN {[kind |-> "uncalled"]}
                     ELSE IF ~pipeline.predict_proba THEN {[kind |-> "absent"]}
                     ELSE ProbaOutcomes :
          /\ call' = [ op |-> "predict_risk", quiz_avg |-> args.quizzes,
                       assignment_avg |-> args.assignments,
                       attendance_rate |-> args.attendance,
                       prediction |-> prediction, proba |-> proba ]
          /\ result' = predict_risk_result(pipeline, args.quizzes, args.assignments,
                                           args.attendance, prediction, proba)
    /\ UNCHANGED <<pipeline, constructed, tables, args, requests>>

\* StudentAnalyticsViewSet._calculate_risk_prediction on an engagement snapshot.
risk_prediction ==
    /\ call' = [op |-> "_calculate_risk_prediction", engagement |-> args]
    /\ result' = calculate_risk_prediction(args)
    /\ UNCHANGED <<pipeline, constructed, tables, args, requests>>

\* StudentAnalyticsViewSet._generate_feedback on an engagement snapshot.
personalized_feedback ==
    /\ call' = [op |-> "_generate_feedback", engagement |-> args]
    /\ result' = generate_feedback(args)
    /\ UNCHANGED <<pipeline, constructed, tables, args, requests>>

NextRisk == load_model \/ predict_risk \/ risk_prediction \/ personalized_feedback

SpecRisk == InitRisk /\ [][NextRisk]_vars

NextFormula == risk_prediction

SpecFormula == InitFormula /\ [][NextFormula]_vars

(***************************************************************************)
(* Properties of the risk estimators                                       *)
(***************************************************************************)
PredictCalled == call.op = "predict_risk"
FormulaCalled == call.op = "_calculate_risk_prediction"

Severity(level) == CASE level = LOW -> 0 [] level = MEDIUM -> 1 [] level = HIGH -> 2

ColorOf(level) == CASE level = LOW -> "green" [] level = MEDIUM -> "orange"
                    [] level = HIGH -> "red"

\* Risk scores 0.00, 0.01, ..., 1.00 in units of 1e-5.
ScoreGrid == {k * 1000 : k \in 0..100}

BaseRisks == {BaseRiskHigh, BaseRiskMedium, BaseRiskLow, BaseRiskDefault}

\* The fallback's risk, written out: (100 - (0.35 q + 0.35 a + 0.30 t)) / 100.
ThreeFactorRisk == RiskOne - 35 * call.quiz_avg - 35 * call.assignment_avg
                           - 30 * call.attendance_rate

C2_NoModelMeansFallback ==
    /\ (call.op = "load_model"
        /\ call.outcome \in {"load_error", "grid_bad_score", "direct_none"})
          => pipeline = None
    /\ (PredictCalled /\ pipeline = None)
          => /\ result.model_used = FALSE
             /\ result.raw = ThreeFactorRisk
             /\ call.prediction.type = "uncalled"

C2_Witness ==
    /\ PredictCalled
    /\ pipeline = None
    /\ result.model_used = FALSE

Scenario2 == Snapshot(560, 650, 800, 450)

PathLevel(score) ==
    IF FormulaCalled THEN dashboard_level(score)[1]
    ELSE IF result.model_used THEN get_risk_level(score)[1]
    ELSE fallback_level(score)[1]

\* C5: on each path (dashboard formula, model path, fallback) a lower score
\* never gets a more severe level than a higher one, 0.0 is LOW, 1.0 is HIGH,
\* and the color is the one of the level.
C5_LevelMonotone ==
    (PredictCalled \/ FormulaCalled) =>
        /\ \A s \in ScoreGrid :
              /\ s <= result.raw
                    => Severity(PathLevel(s)) <= Severity(result.risk_level)
              /\ s >= result.raw
                    => Severity(PathLevel(s)) >= Severity(result.risk_level)
        /\ result.raw = 0 => result.risk_level = LOW
        /\ result.raw = RiskOne => result.risk_level = HIGH
        /\ PathLevel(0) = LOW
        /\ PathLevel(RiskOne) = HIGH
        /\ result.risk_color = ColorOf(result.risk_level)

C5_Witness ==
    /\ PredictCalled
    /\ result.model_used
    /\ result.raw = RiskOne
    /\ result.risk_level = HIGH

\* C6: a risk_score gets the same level and color on the model path as on the
\* fallback path and from the dashboard formula.
C6_SameThresholds ==
    (PredictCalled /\ result.model_used) =>
        /\ <<result.risk_level, result.risk_color>>
              = <<fallback_level(result.raw)[1], fallback_level(result.raw)[2]>>
        /\ <<result.risk_level, result.risk_color>> = dashboard_level(result.raw)

(***************************************************************************)
(* The stored data.  Users, the course and its items are created through   *)
(* the admin site before any score is entered; they are fixed here.        *)
(***************************************************************************)
\* users with user_type = 'student'; all three are registered in the course
\* with status = 'active' (CourseRegistration).
Users == { [user_id |-> 1, student_id |-> "STU001"],
           [user_id |-> 2, student_id |-> "STU002"],
           [user_id |-> 3, student_id |-> "STU003"] }

\* CourseRegistration.objects.filter(course, status='active').values_list('student')
all_students == {u.user_id : u \in Users}

\* Assignment, Quiz and LabActivity rows of the course.
Assignments == { [title |-> "HW1", week_number |-> 1, max_score |-> 10],
                 [title |-> "HW2", week_number |-> 2, max_score |-> 20] }
Quizzes == { [title |-> "Quiz1", week_number |-> 1, max_score |-> 20] }
LabActivities == { [title |-> "Lab1", week_number |-> 1, max_score |-> 10] }

ItemByTitle(items, title) == CHOOSE it \in items : it.title = title

\* An optional number: <<>> is None (or an absent / unparseable CSV cell),
\* <<n>> is the number n.
NoValue == <<>>
Some(n) == <<n>>

\* The largest number of rows the tables hold together.
MaxRecords == 2

TotalRecords(att, sub, qz, lab) ==
    Cardinality(att) + Cardinality(sub) + Cardinality(qz) + Cardinality(lab)

RECURSIVE SumOver(_, _)
\* sum(f(x) for x in S)
SumOver(f(_), S) ==
    IF S = {} THEN 0
    ELSE LET x == CHOOSE y \in S : TRUE
         IN  f(x) + SumOver(f, S \ {x})

(***************************************************************************)
(* apps/assessments/views.py : CSVUploadView                               *)
(***************************************************************************)
\* CSVUploadView._get_student: the user_id, or NoValue
get_student(student_id) ==
    IF \E u \in Users : u.student_id = student_id
    THEN Some((CHOOSE u \in Users : u.student_id = student_id).user_id)
    ELSE NoValue

\* QuerySet.update_or_create(**key, defaults): the table after it, and
\* was_created.  lookup names the key fields and new is the row to store.
\* More than one match raises MultipleObjectsReturned.
Matches(table, lookup, new) == {r \in table : \A f \in lookup : r[f] = new[f]}

update_or_create(table, lookup, new) ==
    LET found == Matches(table, lookup, new)
    IN  IF found = {} THEN [table |-> table \cup {new}, outcome |-> "created"]
        ELSE IF Cardinality(found) = 1
             THEN [table |-> (table \ found) \cup {new}, outcome |-> "updated"]
        ELSE [table |-> table, outcome |-> "raise"]

SubmissionKey == {"assignment", "student"}

\* The text of the status column: absent or blank gives 'graded'.
row_status(cell) == IF cell = "" THEN "graded" ELSE cell

\* One pass of the for-loop of _handle_assignment_scores over the rows left.
\* st = [table, created, updated, errors, raised].
RECURSIVE handle_assignment_rows(_, _)
handle_assignment_rows(rows, st) ==
    IF rows = <<>> \/ st.raised THEN st
    ELSE LET row == Head(rows)
             student == get_student(row.student_id)
             stored == update_or_create(st.table, SubmissionKey,
                          [ student    |-> student[1],
                            assignment |-> row.assignment_title,
                            score      |-> row.score,
                            status     |-> row_status(row.status) ])
             next ==
                IF student = NoValue
                    THEN [st EXCEPT !.errors = @ + 1]
                ELSE IF ~\E a \in Assignments : a.title = row.assignment_title
                    THEN [st EXCEPT !.errors = @ + 1]
                ELSE IF row.score = NoValue      \* float(row['score']) raises
                    THEN [st EXCEPT !.raised = TRUE]
                ELSE IF stored.outcome = "raise"
                    THEN [st EXCEPT !.raised = TRUE]
                ELSE IF stored.outcome = "created"
                    THEN [st EXCEPT !.table = stored.table, !.created = @ + 1]
                ELSE [st EXCEPT !.table = stored.table, !.updated = @ + 1]
         IN  handle_assignment_rows(Tail(rows), next)

\* The HTTP response of an upload handler: an exception that leaves the
\* handler is the framework's 500.
upload_response(rows, st) ==
    IF st.raised THEN [status |-> 500, rows |-> Len(rows)]
    ELSE [ status |-> 200, rows |-> Len(rows), created |-> st.created,
           updated |-> st.updated, errors |-> st.errors ]

StartUpload(table) ==
    [table |-> table, created |-> 0, updated |-> 0, errors |-> 0, raised |-> FALSE]

\* The rows of the uploaded assignment-score files.
AssignmentGoodRows ==
    [ student_id : {"STU001", "STU002"}, assignment_title : {"HW1", "HW2"},
      score : {Some(0), Some(6), Some(8)}, status : {"", "missing"} ]

AssignmentBadRows ==
    { [student_id |-> "STU999", assignment_title |-> "HW1",
       score |-> Some(8), status |-> ""],
      [student_id |-> "STU001", assignment_title |-> "HW9",
       score |-> Some(8), status |-> ""],
      [student_id |-> "STU001", assignment_title |-> "HW1",
       score |-> NoValue, status |-> ""] }

AssignmentFiles ==
    {<<r>> : r \in AssignmentGoodRows \cup AssignmentBadRows}
    \cup {<<b, g>> : b \in AssignmentBadRows,
                     g \in {r \in AssignmentGoodRows :
                              r.student_id = "STU001" /\ r.score = Some(8)}}
    \cup {<<g, h>> : g \in {r \in AssignmentGoodRows :
                              r.student_id = "STU001" /\ r.score = Some(8)
                              /\ r.status = ""},
                     h \in {r \in AssignmentGoodRows :
                              r.student_id = "STU002" /\ r.score = Some(6)
                              /\ r.status = ""}}

AttendanceKey == {"student", "date", "section"}

\* datetime.strptime(cell.strip(), '%Y-%m-%d').date(): the day, or NoValue
\* when it raises ValueError.
ValidDates == ("2026-02-02" :> 1) @@ ("2026-02-09" :> 8)

parse_date(cell) ==
    IF cell \in DOMAIN ValidDates THEN Some(ValidDates[cell]) ELSE NoValue

\* One pass of the for-loop of _handle_attendance over the rows left.
RECURSIVE handle_attendance_rows(_, _)
handle_attendance_rows(rows, st) ==
    IF rows = <<>> \/ st.raised THEN st
    ELSE LET row == Head(rows)
             student == get_student(row.student_id)
             date == parse_date(row.date)
             stored == update_or_create(st.table, AttendanceKey,
                          [ student     |-> student[1],
                            date        |-> date[1],
                            section     |-> row.section,
                            week_number |-> row.week_number[1],
                            status      |-> row.status ])
             next ==
                IF student = NoValue
                    THEN [st EXCEPT !.errors = @ + 1]
                ELSE IF date = NoValue
                    THEN [st EXCEPT !.errors = @ + 1]
                ELSE IF row.week_number = NoValue  \* int(row['week_number']) raises
                    THEN [st EXCEPT !.raised = TRUE]
                ELSE IF stored.outcome = "raise"
                    THEN [st EXCEPT !.raised = TRUE]
                ELSE IF stored.outcome = "created"
                    THEN [st EXCEPT !.table = stored.table, !.created = @ + 1]
                ELSE [st EXCEPT !.table = stored.table, !.updated = @ + 1]
         IN  handle_attendance_rows(Tail(rows), next)

AttendanceGoodRows ==
    [ student_id : {"STU001"}, date : {"2026-02-02", "2026-02-09"},
      week_number : {Some(1), Some(2)}, status : {"present", "absent"},
      section : {"first-section"} ]

AttendanceBadRows ==
    { [student_id |-> "STU999", date |-> "2026-02-02", week_number |-> Some(1),
       status |-> "present", section |-> "first-section"],
      [student_id |-> "STU001", date |-> "02/02/2026", week_number |-> Some(1),
       status |-> "present", section |-> "first-section"],
      [student_id |-> "STU001", date |-> "2026-02-02", week_number |-> NoValue,
       status |-> "present", section |-> "first-section"] }

AttendanceFiles ==
    {<<r>> : r \in AttendanceGoodRows \cup AttendanceBadRows}
    \cup {<<b, g>> : b \in AttendanceBadRows,
                     g \in {r \in AttendanceGoodRows :
                              r.date = "2026-02-09" /\ r.week_number = Some(2)}}
    \cup {<<g, h>> : g \in {r \in AttendanceGoodRows :
                              r.date = "2026-02-02" /\ r.week_number = Some(1)},
                     h \in {r \in AttendanceGoodRows :
                              r.date = "2026-02-09" /\ r.week_number = Some(2)}}

LabKey == {"lab", "student"}

\* One pass of the for-loop of _handle_lab_scores over the rows left.  The cell
\* max_score is [given |-> FALSE] when the file has no such column.
RECURSIVE handle_lab_rows(_, _)
handle_lab_rows(rows, st) ==
    IF rows = <<>> \/ st.raised THEN st
    ELSE LET row == Head(rows)
             student == get_student(row.student_id)
             lab == ItemByTitle(LabActivities, row.lab_title)
             max_score == IF row.max_score.given THEN row.max_score.val
                          ELSE Some(lab.max_score)
             stored == update_or_create(st.table, LabKey,
                          [ student    |-> student[1],
                            lab        |-> row.lab_title,
                            score      |-> row.score[1],
                            max_score  |-> max_score[1],
                            attendance |-> TRUE ])
             next ==
                IF student = NoValue
                    THEN [st EXCEPT !.errors = @ + 1]
                ELSE IF ~\E l \in LabActivities : l.title = row.lab_title
                    THEN [st EXCEPT !.errors = @ + 1]
                ELSE IF row.score = NoValue \/ max_score = NoValue  \* float() raises
                    THEN [st EXCEPT !.raised = TRUE]
                ELSE IF stored.outcome = "raise"
                    THEN [st EXCEPT !.raised = TRUE]
                ELSE IF stored.outcome = "created"
                    THEN [st EXCEPT !.table = stored.table, !.created = @ + 1]
                ELSE [st EXCEPT !.table = stored.table, !.updated = @ + 1]
         IN  handle_lab_rows(Tail(rows), next)

NoColumn == [given |-> FALSE]
Cell(v) == [given |-> TRUE, val |-> v]

LabGoodRows ==
    [ student_id : {"STU001"}, lab_title : {"Lab1"},
      score : {Some(0), Some(6), Some(8)},
      max_score : {NoColumn, Cell(Some(0)), Cell(Some(5))} ]

LabBadRows ==
    { [student_id |-> "STU999", lab_title |-> "Lab1", score |-> Some(8),
       max_score |-> NoColumn],
      [student_id |-> "STU001", lab_title |-> "Lab9", score |-> Some(8),
       max_score |-> NoColumn],
      [student_id |-> "STU001", lab_title |-> "Lab1", score |-> NoValue,
       max_score |-> NoColumn],
      [student_id |-> "STU001", lab_title |-> "Lab1", score |-> Some(8),
       max_score |-> Cell(NoValue)] }

LabFiles ==
    {<<r>> : r \in LabGoodRows \cup LabBadRows}
    \cup {<<b, g>> : b \in LabBadRows,
                     g \in {r \in LabGoodRows : r.score = Some(8)}}

(***************************************************************************)
(* The data-entry operations                                               *)
(***************************************************************************)
\* CSVUploadView.post with type = assignment_scores
upload_assignment_scores ==
    \E rows \in AssignmentFiles :
        LET st == handle_assignment_rows(rows, StartUpload(submissions))
        IN  /\ TotalRecords(attendance, st.table, quiz_scores, lab_participation)
                  <= MaxRecords
            /\ submissions' = st.table
            /\ call' = [op |-> "upload_assignment_scores"]
            /\ result' = upload_response(rows, st)
            /\ UNCHANGED <<pipeline, constructed, args, requests, attendance, quiz_scores,
                           lab_participation>>

\* CSVUploadView.post with type = attendance
upload_attendance ==
    \E rows \in AttendanceFiles :
        LET st == handle_attendance_rows(rows, StartUpload(attendance))
        IN  /\ TotalRecords(st.table, submissions, quiz_scores, lab_participation)
                  <= MaxRecords
            /\ attendance' = st.table
            /\ call' = [op |-> "upload_attendance"]
            /\ result' = upload_response(rows, st)
            /\ UNCHANGED <<pipeline, constructed, args, requests, submissions, quiz_scores,
                           lab_participation>>

\* CSVUploadView.post with type = lab_scores
upload_lab_scores ==
    \E rows \in LabFiles :
        LET st == handle_lab_rows(rows, StartUpload(lab_participation))
        IN  /\ TotalRecords(attendance, submissions, quiz_scores, st.table)
                  <= MaxRecords
            /\ lab_participation' = st.table
            /\ call' = [op |-> "upload_lab_scores"]
            /\ result' = upload_response(rows, st)
            /\ UNCHANGED <<pipeline, constructed, args, requests, attendance, submissions,
                           quiz_scores>>

\* QuizScoreAdmin: the add form of the admin site saves a new QuizScore row.
\* (The model declares no uniqueness of (quiz, student).)
admin_add_quiz_score ==
    \E student \in {1, 2}, quiz \in Quizzes, score \in {0, 6, 8} :
        LET new == [student |-> student, quiz |-> quiz.title, score |-> score]
        IN  /\ new \notin quiz_scores
            /\ TotalRecords(attendance, submissions, quiz_scores, lab_participation)
                  < MaxRecords
            /\ quiz_scores' = quiz_scores \cup {new}
            /\ call' = [op |-> "admin_add_quiz_score"]
            /\ result' = [status |-> 302]
            /\ UNCHANGED <<pipeline, constructed, args, requests, attendance, submissions,
                           lab_participation>>

(***************************************************************************)
(* apps/analytics/views.py : the figures of the dashboard                  *)
(***************************************************************************)
\* A number of a response, apart from None.
Num(n) == [type |-> "number", val |-> n]

\* The exact quotient num / den of a Python float division.
Ratio(num, den) == [num |-> num, den |-> den]
RatAdd(a, b) == Ratio(a.num * b.den + b.num * a.den, a.den * b.den)

RECURSIVE RatSum(_, _)
\* sum(f(x) for x in S) over quotients
RatSum(f(_), S) ==
    IF S = {} THEN Ratio(0, 1)
    ELSE LET x == CHOOSE y \in S : TRUE
         IN  RatAdd(f(x), RatSum(f, S \ {x}))

\* round(q, 1), in tenths
Round1(q) == RoundHalfEven(10 * q.num, q.den)

\* queryset.filter(week_number=week_number), applied only `if week_number:`
InWeek(item, week_number) ==
    week_number = NoValue \/ item.week_number = week_number[1]

SubmissionScore(r) == r.score[1]
SubmissionMax(r) == ItemByTitle(Assignments, r.assignment).max_score
QuizScoreOf(r) == r.score
QuizMax(r) == ItemByTitle(Quizzes, r.quiz).max_score
LabScore(r) == r.score
LabMax(r) == r.max_score

\* (earned / possible * 100) if possible > 0 else 0
percentage(earned, possible) ==
    IF possible > 0 THEN Ratio(100 * earned, possible) ELSE Ratio(0, 1)

\* StudentAnalyticsViewSet._calculate_engagement_metrics
calculate_engagement_metrics(student, week_number) ==
    LET attendance_query ==
            {r \in attendance : r.student = student /\ InWeek(r, week_number)}
        total_classes == Cardinality(attendance_query)
        present_classes ==
            Cardinality({r \in attendance_query : r.status = "present"})
        scored ==
            {r \in submissions :
                /\ r.student = student
                /\ InWeek(ItemByTitle(Assignments, r.assignment), week_number)
                /\ r.status # "missing"
                /\ r.score # NoValue}
        scores ==
            {r \in quiz_scores :
                /\ r.student = student
                /\ InWeek(ItemByTitle(Quizzes, r.quiz), week_number)}
        lab_participations == {r \in lab_participation : r.student = student}
    IN  [ attendance   |-> Round1(percentage(present_classes, total_classes)),
          assignments  |-> Round1(percentage(SumOver(SubmissionScore, scored),
                                             SumOver(SubmissionMax, scored))),
          quizzes      |-> Round1(percentage(SumOver(QuizScoreOf, scores),
                                             SumOver(QuizMax, scores))),
          lab_activity |-> Round1(percentage(SumOver(LabScore, lab_participations),
                                             SumOver(LabMax, lab_participations))) ]

\* The submissions and quiz scores _calculate_week_score adds up.
week_assignment_scores(student, week_number) ==
    {r \in submissions :
        /\ r.student = student
        /\ ItemByTitle(Assignments, r.assignment).week_number = week_number
        /\ r.status # "missing"
        /\ r.score # NoValue}

week_quiz_scores(student, week_number) ==
    {r \in quiz_scores :
        /\ r.student = student
        /\ ItemByTitle(Quizzes, r.quiz).week_number = week_number}

\* The week score as the mean of the items' own percentages.
calculate_week_score_MeanOfPercentages(student, week_number) ==
    LET SubmissionPct(r) == Ratio(100 * SubmissionScore(r), SubmissionMax(r))
        QuizPct(r) == Ratio(100 * QuizScoreOf(r), QuizMax(r))
        assignment_scores == week_assignment_scores(student, week_number)
        scores == week_quiz_scores(student, week_number)
        n == Cardinality(assignment_scores) + Cardinality(scores)
        total == RatAdd(RatSum(SubmissionPct, assignment_scores),
                        RatSum(QuizPct, scores))
    IN  IF n = 0 THEN Ratio(0, 1) ELSE Ratio(total.num, total.den * n)

\* StudentAnalyticsViewSet._calculate_week_score
calculate_week_score(student, week_number) ==
    LET assignment_scores == week_assignment_scores(student, week_number)
        scores == week_quiz_scores(student, week_number)
        total_earned == SumOver(SubmissionScore, assignment_scores)
                        + SumOver(QuizScoreOf, scores)
        total_possible == SumOver(SubmissionMax, assignment_scores)
                          + SumOver(QuizMax, scores)
    IN  IF total_possible = 0 THEN Ratio(0, 1)
        ELSE Ratio(total_earned * 100, total_possible)

MaxWeeks == 5

\* Weekly progress that leaves out the weeks in which the student has no item.
calculate_weekly_progress_OnlyWeeksWithData(student) ==
    LET every == [ week \in 1..MaxWeeks |->
                     [ week          |-> week,
                       student_score |-> Num(Round1(calculate_week_score(student, week))),
                       class_average |-> Num(0) ] ]
        HasItems(p) == \/ week_assignment_scores(student, p.week) # {}
                       \/ week_quiz_scores(student, p.week) # {}
    IN  SelectSeq(every, HasItems)

\* StudentAnalyticsViewSet._calculate_weekly_progress
calculate_weekly_progress(student) ==
    [ week \in 1..MaxWeeks |->
        LET student_score == calculate_week_score(student, week)
            ScoreOf(s) == calculate_week_score(s, week)
            total == RatSum(ScoreOf, all_students)
            class_average ==
                IF all_students # {}
                THEN Ratio(total.num, total.den * Cardinality(all_students))
                ELSE Ratio(0, 1)
        IN  [ week          |-> week,
              student_score |-> Num(Round1(student_score)),
              class_average |-> Num(Round1(class_average)) ] ]

\* The query parameters student_id and week_number of a dashboard request.
StudentIdParams == {NoValue, Some(1), Some(2), Some(3), Some(9)}
WeekParams == {NoValue, Some(1), Some(2)}

\* The course of the requests; course_id is given and names it.
Course == [course_id |-> 1, course_code |-> "CS101"]

\* A dashboard that answers only while the predictor holds a pipeline.
dashboard_response_NeedsModel(student_id, week_number) ==
    IF student_id = NoValue THEN [status |-> 400]
    ELSE IF ~\E u \in Users : u.user_id = student_id[1] THEN [status |-> 404]
    ELSE IF pipeline = None THEN [status |-> 500]
    ELSE LET engagement == calculate_engagement_metrics(student_id[1], week_number)
         IN  [ status                |-> 200,
               student               |-> student_id[1],
               course                |-> [id |-> Course.course_id,
                                          code |-> Course.course_code],
               risk_prediction       |-> calculate_risk_prediction(engagement),
               weekly_progress       |-> calculate_weekly_progress(student_id[1]),
               engagement_tracker    |-> engagement,
               personalized_feedback |-> generate_feedback(engagement) ]

\* The Response of StudentAnalyticsViewSet.get_dashboard
dashboard_response(student_id, week_number) ==
    IF student_id = NoValue THEN [status |-> 400]
    ELSE IF ~\E u \in Users : u.user_id = student_id[1] THEN [status |-> 404]
    ELSE LET student == student_id[1]
             engagement == calculate_engagement_metrics(student, week_number)
         IN  [ status                |-> 200,
               student               |-> student,
               course                |-> [id |-> Course.course_id,
                                          code |-> Course.course_code],
               risk_prediction       |-> calculate_risk_prediction(engagement),
               weekly_progress       |-> calculate_weekly_progress(student),
               engagement_tracker    |-> engagement,
               personalized_feedback |-> generate_feedback(engagement) ]

\* StudentAnalyticsViewSet.get_dashboard
get_dashboard ==
    \E student_id \in StudentIdParams, week_number \in WeekParams :
        /\ call' = [ op |-> "get_dashboard", student_id |-> student_id,
                     week_number |-> week_number ]
        /\ result' = dashboard_response(student_id, week_number)
        /\ UNCHANGED <<pipeline, constructed, args, requests, tables>>

\* The exception that ends _get_detailed_breakdown, or "none".  The loops run
\* in the order assignments, quizzes, labs; Model.objects.get raises
\* MultipleObjectsReturned on two matching rows, and a division by a max_score
\* of 0 raises ZeroDivisionError.
breakdown_exception(student, week_number) ==
    LET assignments == {a \in Assignments : InWeek(a, week_number)}
        quizzes == {q \in Quizzes : InWeek(q, week_number)}
        SubmissionsOf(a) ==
            {r \in submissions : r.student = student /\ r.assignment = a.title}
        ScoresOf(q) ==
            {r \in quiz_scores : r.student = student /\ r.quiz = q.title}
        lab_participations == {r \in lab_participation : r.student = student}
    IN  IF \E a \in assignments : Cardinality(SubmissionsOf(a)) > 1
            THEN "MultipleObjectsReturned"
        ELSE IF \E a \in assignments : SubmissionsOf(a) # {} /\ a.max_score = 0
            THEN "ZeroDivisionError"
        ELSE IF \E q \in quizzes : Cardinality(ScoresOf(q)) > 1
            THEN "MultipleObjectsReturned"
        ELSE IF \E q \in quizzes : ScoresOf(q) # {} /\ q.max_score = 0
            THEN "ZeroDivisionError"
        ELSE IF \E r \in lab_participations : r.max_score = 0
            THEN "ZeroDivisionError"
        ELSE "none"

\* submission.score or 0
ScoreOrZero(r) == IF r.score = NoValue THEN 0 ELSE r.score[1]

\* round((earned / possible * 100), 1) if possible > 0 else 0
detail_percentage(earned, possible) ==
    IF possible > 0 THEN Round1(Ratio(100 * earned, possible)) ELSE 0

\* StudentAnalyticsViewSet._get_detailed_breakdown, when no exception ends it.
get_detailed_breakdown(student, week_number) ==
    LET attendance_records ==
            {r \in attendance : r.student = student /\ InWeek(r, week_number)}
        total_classes == Cardinality(attendance_records)
        present_classes ==
            Cardinality({r \in attendance_records : r.status = "present"})
        assignments == {a \in Assignments : InWeek(a, week_number)}
        found == {r \in submissions :
                     /\ r.student = student
                     /\ \E a \in assignments : a.title = r.assignment}
        assignment_details ==
            { [ title |-> r.assignment, score |-> ScoreOrZero(r),
                max_score |-> SubmissionMax(r),
                percentage |-> Round1(Ratio(100 * ScoreOrZero(r), SubmissionMax(r))),
                status |-> r.status ] : r \in found }
            \cup
            { [ title |-> a.title, score |-> 0, max_score |-> a.max_score,
                percentage |-> 0, status |-> "missing" ] :
                  a \in {x \in assignments :
                            ~\E r \in found : r.assignment = x.title} }
        quizzes == {q \in Quizzes : InWeek(q, week_number)}
        scores == {r \in quiz_scores :
                      /\ r.student = student
                      /\ \E q \in quizzes : q.title = r.quiz}
        quiz_details ==
            { [ title |-> r.quiz, score |-> r.score, max_score |-> QuizMax(r),
                percentage |-> Round1(Ratio(100 * r.score, QuizMax(r))) ] :
                  r \in scores }
            \cup
            { [ title |-> q.title, score |-> 0, max_score |-> q.max_score,
                percentage |-> 0 ] :
                  q \in {x \in quizzes : ~\E r \in scores : r.quiz = x.title} }
        lab_participations == {r \in lab_participation : r.student = student}
        lab_details ==
            { [ title |-> r.lab, score |-> r.score, max_score |-> r.max_score,
                percentage |-> Round1(Ratio(100 * r.score, r.max_score)),
                attendance |-> r.attendance ] : r \in lab_participations }
    IN  [ attendance |->
            [ percentage |-> detail_percentage(present_classes, total_classes),
              present |-> present_classes, total |-> total_classes ],
          assignments |->
            [ percentage |-> detail_percentage(SumOver(ScoreOrZero, found),
                                               SumOver(SubmissionMax, found)),
              earned |-> SumOver(ScoreOrZero, found),
              possible |-> SumOver(SubmissionMax, found),
              submissions |-> assignment_details ],
          quizzes |->
            [ percentage |-> detail_percentage(SumOver(QuizScoreOf, scores),
                                               SumOver(QuizMax, scores)),
              earned |-> SumOver(QuizScoreOf, scores),
              possible |-> SumOver(QuizMax, scores),
              scores |-> quiz_details ],
          labs |->
            [ percentage |-> detail_percentage(SumOver(LabScore, lab_participations),
                                               SumOver(LabMax, lab_participations)),
              earned |-> SumOver(LabScore, lab_participations),
              possible |-> SumOver(LabMax, lab_participations),
              participations |-> lab_details ] ]

\* The Response of StudentAnalyticsViewSet.get_engagement_details; an
\* exception that nothing catches becomes the 500 response of the framework.
engagement_details_response(student_id, week_number) ==
    IF student_id = NoValue THEN [status |-> 400]
    ELSE IF ~\E u \in Users : u.user_id = student_id[1] THEN [status |-> 404]
    ELSE IF breakdown_exception(student_id[1], week_number) # "none"
        THEN [ status |-> 500,
               exception |-> breakdown_exception(student_id[1], week_number) ]
    ELSE [ status  |-> 200,
           details |-> get_detailed_breakdown(student_id[1], week_number) ]

\* StudentAnalyticsViewSet.get_engagement_details
get_engagement_details ==
    \E student_id \in StudentIdParams, week_number \in WeekParams :
        /\ call' = [ op |-> "get_engagement_details", student_id |-> student_id,
                     week_number |-> week_number ]
        /\ result' = engagement_details_response(student_id, week_number)
        /\ UNCHANGED <<pipeline, constructed, args, requests, tables>>

InitData == InitState /\ args = None

\* Scores come in, dashboards are read.
Next == upload_assignment_scores \/ admin_add_quiz_score \/ get_dashboard

Spec == InitData /\ [][Next]_vars

\* The predictor is constructed, attendance and lab marks come in, dashboards
\* are read.
NextEngagement ==
    \/ load_model \/ upload_attendance \/ upload_lab_scores
    \/ get_dashboard \/ get_engagement_details

SpecEngagement == InitData /\ [][NextEngagement]_vars

(***************************************************************************)
(* Properties of the dashboard figures                                     *)
(***************************************************************************)
DashboardServed == call.op = "get_dashboard" /\ result.status = 200

\* The items of a student in a week, each with its score and its own maximum.
WeekItems(student, week) ==
    { [kind |-> "assignment", title |-> r.assignment, score |-> r.score[1],
       max_score |-> ItemByTitle(Assignments, r.assignment).max_score] :
         r \in {x \in submissions :
                   /\ x.student = student
                   /\ x.status # "missing"
                   /\ x.score # NoValue
                   /\ \E a \in Assignments :
                         a.title = x.assignment /\ a.week_number = week} }
    \cup
    { [kind |-> "quiz", title |-> r.quiz, score |-> r.score,
       max_score |-> ItemByTitle(Quizzes, r.quiz).max_score] :
         r \in {x \in quiz_scores :
                   /\ x.student = student
                   /\ \E q \in Quizzes :
                         q.title = x.quiz /\ q.week_number = week} }

ItemScore(i) == i.score
ItemMax(i) == i.max_score
ItemPct(i) == Ratio(100 * i.score, i.max_score)

\* Mean of the items' own percentages, in tenths.
MeanOfItemPercentages(items) ==
    LET total == RatSum(ItemPct, items)
    IN  RoundHalfEven(10 * total.num, total.den * Cardinality(items))

\* Points earned over points possible, in tenths of a percent.
PooledPercentage(items) ==
    RoundHalfEven(1000 * SumOver(ItemScore, items), SumOver(ItemMax, items))

InRange(p) == 0 <= p /\ p <= Pct(100)

\* C7 (as stated): each of the four engagement percentages lies in [0,100]
\* for stored records with non-negative scores, and is 0 when its denominator
\* (classes held, points possible) is 0.
C7_PercentagesInRange ==
    DashboardServed =>
        LET e == result.engagement_tracker
            student == call.student_id[1]
            classes == {r \in attendance :
                           /\ r.student = student
                           /\ InWeek(r, call.week_number)}
            labs == {r \in lab_participation : r.student = student}
        IN  /\ InRange(e.attendance) /\ InRange(e.assignments)
            /\ InRange(e.quizzes) /\ InRange(e.lab_activity)
            /\ classes = {} => e.attendance = 0
            /\ SumOver(LabMax, labs) = 0 => e.lab_activity = 0

\* C8 (as stated): the week score is null exactly when the student has no
\* non-missing assignment submission and no quiz score in the week, so that a
\* student who earned zero points (0) differs from one without data.
C8_NullIffNoData ==
    DashboardServed =>
        \A week \in 1..MaxWeeks :
            LET student == call.student_id[1]
            IN  (calculate_week_score(student, week) = None)
                    <=> (WeekItems(student, week) = {})

C10_AverageOverStudentsWithData ==
    DashboardServed =>
        \A week \in 1..MaxWeeks :
            LET with_data == {s \in all_students : WeekItems(s, week) # {}}
                ScoreOf(s) == calculate_week_score(s, week)
                total == RatSum(ScoreOf, with_data)
            IN  result.weekly_progress[week].class_average
                  = IF with_data = {} THEN None
                    ELSE Num(RoundHalfEven(10 * total.num,
                                           total.den * Cardinality(with_data)))

\* Recorded activity of a student in a week: an attendance row of the week, a
\* submission or a quiz score of an item of the week, a participation in a lab
\* of the week.
HasActivity(student, week) ==
    \/ \E r \in attendance : r.student = student /\ r.week_number = week
    \/ \E r \in submissions :
          r.student = student
          /\ ItemByTitle(Assignments, r.assignment).week_number = week
    \/ \E r \in quiz_scores :
          r.student = student /\ ItemByTitle(Quizzes, r.quiz).week_number = week
    \/ \E r \in lab_participation :
          r.student = student
          /\ ItemByTitle(LabActivities, r.lab).week_number = week

\* The gate of the weekly progress: activity in week 2 or in week 3.
ProgressVisible(student) == HasActivity(student, 2) \/ HasActivity(student, 3)

\* C11 (as stated): without activity of the student in week 2 and in week 3,
\* every point of the weekly progress has has_data = false, student_score =
\* null and class_average = null, whatever the other weeks hold.
C11_GatedProgressIsEmpty ==
    (DashboardServed /\ ~ProgressVisible(call.student_id[1])) =>
        \A i \in DOMAIN result.weekly_progress :
            LET p == result.weekly_progress[i]
            IN  /\ "has_data" \in DOMAIN p
                /\ p.has_data = FALSE
                /\ p.student_score = None
                /\ p.class_average = None

\* C12: the weekly progress has exactly one point per week 1..max_weeks, in
\* ascending week order, whether or not anybody has data in a week.
C12_OnePointPerWeek ==
    DashboardServed =>
        /\ DOMAIN result.weekly_progress = 1..MaxWeeks
        /\ \A i \in 1..MaxWeeks : result.weekly_progress[i].week = i

\* A dashboard of a student who has an item in one week and none in another.
C12_Witness ==
    /\ DashboardServed
    /\ \E w, v \in 1..MaxWeeks :
          /\ WeekItems(call.student_id[1], w) # {}
          /\ \A s \in all_students : WeekItems(s, v) = {}
          /\ result.weekly_progress[w].week = w
          /\ result.weekly_progress[v].week = v

\* C13 (as stated): when the progress is visible and, in a week, the student
\* has a score and no other student of the cohort has data, the class_average
\* of the week is the student's own score.
C13_AloneMeansOwnScore ==
    (DashboardServed /\ ProgressVisible(call.student_id[1])) =>
        \A week \in 1..MaxWeeks :
            LET student == call.student_id[1]
                p == result.weekly_progress[week]
            IN  (/\ WeekItems(student, week) # {}
                 /\ \A s \in all_students \ {student} : WeekItems(s, week) = {})
                    => p.class_average = p.student_score

(***************************************************************************)
(* Properties of the model path                                            *)
(***************************************************************************)
\* predict() returned a label and the model path was taken.
ModelPathTaken ==
    PredictCalled /\ pipeline # None /\ call.prediction.type # "raise"

\* No class probabilities replace the base risk: predict_proba is absent, it
\* raised, or it gave fewer than two classes.
NoProbabilityOutput ==
    \/ call.proba.kind \in {"absent", "raise"}
    \/ call.proba.kind = "vector" /\ Len(call.proba.p) < 2

IsLabel(prediction, chars) == prediction.type = "str" /\ prediction.val = chars

\* The base risk the labels drawn are to get, label by label.
ExpectedBaseRisk(prediction) ==
    IF IsLabel(prediction, <<"H","i","g","h">>) THEN 80000
    ELSE IF IsLabel(prediction, <<" ","M","E","D","I","U","M"," ","R","i","s","k"," ">>)
        THEN 50000
    ELSE IF IsLabel(prediction, <<"m","o","d","e","r","a","t","e">>) THEN 50000
    ELSE IF IsLabel(prediction, <<"L","o","w">>) THEN 20000
    ELSE IF prediction.type = "int" /\ prediction.val >= 2 THEN 80000
    ELSE IF prediction.type = "int" /\ prediction.val = 1 THEN 50000
    ELSE IF prediction.type = "int" THEN 20000
    ELSE 30000

\* C14: a prediction High maps to base risk 0.8, Medium to 0.5, Low to 0.2
\* (strings whatever their case, integers >= 2 / 1 / other likewise), and any
\* other label or type maps to 0.3; the call does not raise and stays on the
\* model path.
C14_LabelToBaseRisk ==
    ModelPathTaken =>
        /\ result.model_used = TRUE
        /\ convert_prediction(call.prediction)[2] = ExpectedBaseRisk(call.prediction)
        /\ NoProbabilityOutput => result.raw = ExpectedBaseRisk(call.prediction)

\* An unrecognized label went through the model path with base risk 0.3.
C14_Witness ==
    /\ ModelPathTaken
    /\ IsLabel(call.prediction, <<"C","r","i","t","i","c","a","l">>)
    /\ call.proba.kind = "absent"
    /\ result.raw = 30000
    /\ result.model_used = TRUE

\* C15: on the model path the risk is the sum of the Medium and High class
\* probabilities when there are three classes, the positive-class probability
\* when there are two, and otherwise the base risk of the predicted label; a
\* prediction High without probability output gives 0.8, HIGH, red,
\* model_used = True.
C15_ModelPathRiskScore ==
    ModelPathTaken =>
        /\ (call.proba.kind = "vector" /\ Len(call.proba.p) = 3)
              => result.raw = call.proba.p[2] + call.proba.p[3]
        /\ (call.proba.kind = "vector" /\ Len(call.proba.p) = 2)
              => result.raw = call.proba.p[2]
        /\ NoProbabilityOutput
              => result.raw = convert_prediction(call.prediction)[2]
        /\ result.risk_score = RoundHalfEven(result.raw, 1000)
        /\ (IsLabel(call.prediction, <<"H","i","g","h">>)
            /\ call.proba.kind = "absent")
              => /\ result.risk_score = 80
                 /\ result.risk_level = HIGH
                 /\ result.risk_color = "red"
                 /\ result.model_used = TRUE

\* A prediction with three class probabilities whose Medium and High parts
\* are both positive.
C15_Witness ==
    /\ ModelPathTaken
    /\ call.proba = Vector(<<35000, 25000, 40000>>)
    /\ result.raw = 65000
    /\ result.risk_level = HIGH

(***************************************************************************)
(* Properties of the feedback generators                                   *)
(***************************************************************************)
FeedbackCalled == call.op = "_generate_feedback"

Contains(seq, x) == \E i \in DOMAIN seq : seq[i] = x

\* 1 when the percentage is below the threshold (in percent), else 0.
Below(pct, min) == IF pct < 10 * min THEN 1 ELSE 0

\* How many of the predictor's three rules the arguments of the call trigger.
PredictorTriggered ==
    Below(call.attendance_rate, 75) + Below(call.assignment_avg, 70)
    + Below(call.quiz_avg, 70)

\* How many of the four rules (attendance < 60, assignments < 70,
\* quizzes < 60, labs < 50) the engagement of the call triggers.
DashboardTriggered ==
    Below(call.engagement.attendance, 60) + Below(call.engagement.assignments, 70)
    + Below(call.engagement.quizzes, 60) + Below(call.engagement.lab_activity, 50)

\* The rules _calculate_risk_prediction has: attendance < 60, assignments < 70.
RiskFeedbackTriggered ==
    Below(call.engagement.attendance, 60) + Below(call.engagement.assignments, 70)

Acknowledgements ==
    {"Keep up the excellent work!", "Keep up the good work", "Great work! Keep it up"}

\* C16 (as stated): in every feedback generator, a risk level other than LOW
\* with no threshold rule triggered gives the maintain-effort fragment, and
\* the positive acknowledgement is returned only when the level is LOW.
C16_MaintainEffortUnlessLow ==
    /\ PredictCalled =>
          /\ (result.risk_level # LOW /\ PredictorTriggered = 0)
                => Contains(result.feedback, "Maintain consistent effort")
          /\ (\E a \in Acknowledgements : Contains(result.feedback, a))
                => result.risk_level = LOW
    /\ FormulaCalled =>
          /\ (result.risk_level # LOW /\ RiskFeedbackTriggered = 0)
                => Contains(result.feedback, "Maintain consistent effort")
          /\ (\E a \in Acknowledgements : Contains(result.feedback, a))
                => result.risk_level = LOW

\* C17 (as stated): the rules attendance, assignments, quizzes, labs are
\* evaluated in that order, each against its threshold, and each triggered
\* rule appends exactly one fragment: the fragments come in that order and a
\* fragment is present exactly when its percentage is below its threshold.
C17_OneFragmentPerLowPercentage ==
    /\ PredictCalled =>
          (PredictorTriggered > 0 =>
              result.feedback
                  = (IF call.attendance_rate < 750
                     THEN <<"Improve attendance">> ELSE <<>>)
                    \o (IF call.assignment_avg < 700
                        THEN <<"Complete assignments">> ELSE <<>>)
                    \o (IF call.quiz_avg < 700
                        THEN <<"Study for quizzes">> ELSE <<>>))
    /\ FeedbackCalled =>
          (DashboardTriggered > 0 =>
              /\ Len(result.message) = DashboardTriggered
              /\ \A a \in Acknowledgements : ~Contains(result.message, a))
    /\ FormulaCalled =>
          (DashboardTriggered > 0 =>
              /\ Len(result.feedback) = DashboardTriggered
              /\ \A a \in Acknowledgements : ~Contains(result.feedback, a))

\* C18 (as stated): when no feedback rule triggers the feedback is a single
\* positive acknowledgement; the feedback is never empty, and the suggestions
\* of the {message, suggestions} variant are as many as the message fragments
\* and at least one.
C18_AcknowledgementWhenNoRule ==
    /\ PredictCalled =>
          /\ result.feedback # <<>>
          /\ PredictorTriggered = 0
                => result.feedback = <<"Keep up the excellent work!">>
    /\ FormulaCalled =>
          /\ result.feedback # <<>>
          /\ RiskFeedbackTriggered = 0
                => result.feedback = <<"Keep up the good work">>
    /\ FeedbackCalled =>
          /\ result.message # <<>>
          /\ result.suggestions # <<>>
          /\ Len(result.suggestions) = Len(result.message)
          /\ DashboardTriggered = 0
                => result.message = <<"Great work! Keep it up">>

\* C18 (amended): when no threshold rule of a generator triggers, its
\* feedback is a single fragment: the positive acknowledgement, except that
\* RiskPredictor returns the maintain-effort fragment when the level is not
\* LOW; the feedback is never empty, and the suggestions of the {message,
\* suggestions} variant are as many as the message fragments and at least one.
C18_SingleFragmentWhenNoRule ==
    /\ PredictCalled =>
          /\ result.feedback # <<>>
          /\ PredictorTriggered = 0
                => result.feedback
                     = IF result.risk_level = LOW
                       THEN <<"Keep up the excellent work!">>
                       ELSE <<"Maintain consistent effort">>
    /\ FormulaCalled =>
          /\ result.feedback # <<>>
          /\ RiskFeedbackTriggered = 0
                => result.feedback = <<"Keep up the good work">>
    /\ FeedbackCalled =>
          /\ result.message # <<>>
          /\ result.suggestions # <<>>
          /\ Len(result.suggestions) = Len(result.message)
          /\ DashboardTriggered = 0
                => /\ result.message = <<"Great work! Keep it up">>
                   /\ Len(result.suggestions) = 1

\* _generate_feedback on an engagement that triggers none of the four rules.
C18_Witness ==
    /\ FeedbackCalled
    /\ DashboardTriggered = 0
    /\ result.message = <<"Great work! Keep it up">>
    /\ result.suggestions = <<"Maintain your current performance level">>

(***************************************************************************)
(* Properties of the dashboard request                                     *)
(***************************************************************************)
DashboardFields ==
    { "status", "student", "course", "risk_prediction", "weekly_progress",
      "engagement_tracker", "personalized_feedback" }

\* C19: a dashboard request for an existing student and course returns the
\* complete payload with status 200 whether the statistical model is loaded,
\* absent or failed to load; the risk estimate is the one of the formula.
C19_DashboardWithoutModel ==
    (call.op = "get_dashboard"
     /\ call.student_id # NoValue
     /\ \E u \in Users : u.user_id = call.student_id[1]) =>
        /\ result.status = 200
        /\ DOMAIN result = DashboardFields
        /\ result.student = call.student_id[1]
        /\ DOMAIN result.weekly_progress = 1..MaxWeeks
        /\ result.risk_prediction.raw
              = 25 * (1000 - result.engagement_tracker.attendance)
                + 30 * (1000 - result.engagement_tracker.assignments)
                + 25 * (1000 - result.engagement_tracker.quizzes)
                + 20 * (1000 - result.engagement_tracker.lab_activity)

\* A dashboard served after RiskPredictor() failed to load its model.
C19_Witness ==
    /\ DashboardServed
    /\ constructed
    /\ pipeline = None
    /\ DOMAIN result = DashboardFields

Levels == {LOW, MEDIUM, HIGH}

\* C21 (as stated): every risk assessment has risk_score in [0,1] and
\* risk_level in {LOW, MEDIUM, HIGH}; here for the dashboard formula on an
\* engagement snapshot computed from stored records.
C21_RiskScoreInUnitInterval ==
    FormulaCalled =>
        /\ 0 <= result.raw /\ result.raw <= RiskOne
        /\ 0 <= result.risk_score /\ result.risk_score <= 100
        /\ result.risk_level \in Levels

(***************************************************************************)
(* Attendance uploads in progress at the same time                         *)
(*                                                                         *)
(* CSVUploadView._handle_attendance (API) and                              *)
(* AttendanceAdmin.process_csv_rows (admin) run the same loop; no          *)
(* transaction spans the loop, so the rows of two uploads interleave.      *)
(* update_or_create is a SELECT followed by an UPDATE or an INSERT, and    *)
(* another request can write between the two.  The admin rows name their   *)
(* course; the model has the one course, which get_course finds.           *)
(***************************************************************************)

\* INSERT into a table whose Meta declares unique_together over the lookup
\* fields: the database refuses a second row with the key.
db_insert_NoUniqueConstraint(table, lookup, new) == [table |-> table \cup {new}, outcome |-> "inserted"]

db_insert(table, lookup, new) ==
    IF Matches(table, lookup, new) # {}
    THEN [table |-> table, outcome |-> "IntegrityError"]
    ELSE [table |-> table \cup {new}, outcome |-> "inserted"]

\* The Attendance row that a CSV row of known student and valid date stores.
attendance_row(row) ==
    [ student     |-> get_student(row.student_id)[1],
      date        |-> parse_date(row.date)[1],
      section     |-> row.section,
      week_number |-> row.week_number[1],
      status      |-> row.status ]

\* The upload after a row is finished: the loop goes on, or the handler
\* returns.
next_row(u) ==
    [u EXCEPT !.rows = Tail(@),
              !.pc = IF Len(u.rows) > 1 THEN "lookup" ELSE "respond"]

\* The files of the uploads that run at the same time: one or two rows, of
\* either attendance status, over two dates.
InterleavedRows == {r \in AttendanceGoodRows : r.week_number = Some(1)}
InterleavedFiles ==
    {<<r>> : r \in InterleavedRows \cup AttendanceBadRows}
    \cup {<<g, h>> : g \in {r \in InterleavedRows \cup AttendanceBadRows :
                              r.date # "2026-02-09"},
                     h \in {r \in InterleavedRows : r.date = "2026-02-09"}}

\* A request arrives with a parsed, non-empty CSV file.
begin_attendance_upload(p) ==
    /\ uploads[p].pc = "idle"
    /\ \E rows \in InterleavedFiles :
          uploads' = [uploads EXCEPT ![p] =
                         [IdleUpload EXCEPT !.pc = "lookup", !.rows = rows]]
    /\ UNCHANGED <<pipeline, constructed, tables, args, call, result,
                   email_otps, accounts, otp_requests>>

\* The head of the loop body for one row: the student and the date are
\* checked, int(row['week_number']) is evaluated, and get_or_create looks the
\* key up.
attendance_lookup(p) ==
    LET u == uploads[p]
        row == Head(u.rows)
    IN  /\ u.pc = "lookup"
        /\ uploads' = [uploads EXCEPT ![p] =
              IF get_student(row.student_id) = NoValue
                  THEN next_row([u EXCEPT !.errors = @ + 1])
              ELSE IF parse_date(row.date) = NoValue
                  THEN next_row([u EXCEPT !.errors = @ + 1])
              ELSE IF row.week_number = NoValue
                  THEN [u EXCEPT !.pc = "raised"]
              ELSE [u EXCEPT !.pc = "write",
                             !.found = Matches(attendance, AttendanceKey,
                                               attendance_row(row)) # {}]]
        /\ UNCHANGED <<pipeline, constructed, tables, args, call, result,
                       email_otps, accounts, otp_requests>>

\* The rest of update_or_create for the row: the row found is updated; a key
\* not found is inserted, and when the insert is refused get_or_create gets
\* the row that is there now and update_or_create updates it.
attendance_write(p) ==
    LET u == uploads[p]
        new == attendance_row(Head(u.rows))
        inserted == db_insert(attendance, AttendanceKey, new)
        was_created == ~u.found /\ inserted.outcome = "inserted"
    IN  /\ u.pc = "write"
        /\ attendance' =
              IF was_created THEN inserted.table
              ELSE IF u.found \/ inserted.outcome = "IntegrityError"
                   THEN (attendance \ Matches(attendance, AttendanceKey, new))
                           \cup {new}
              ELSE attendance
        /\ uploads' = [uploads EXCEPT ![p] =
              IF was_created THEN next_row([u EXCEPT !.created = @ + 1])
              ELSE next_row([u EXCEPT !.updated = @ + 1])]
        /\ UNCHANGED <<pipeline, constructed, submissions, quiz_scores,
                       lab_participation, args, call, result, email_otps,
                       accounts, otp_requests>>

\* The handler returns its counts, or the exception leaves it.
attendance_respond(p) ==
    LET u == uploads[p]
    IN  /\ u.pc \in {"respond", "raised"}
        /\ call' = [op |-> "upload_attendance", by |-> p]
        /\ result' = IF u.pc = "raised" THEN [status |-> 500]
                     ELSE [ status |-> 200, created |-> u.created,
                            updated |-> u.updated, errors |-> u.errors ]
        /\ uploads' = [uploads EXCEPT ![p] = IdleUpload]
        /\ UNCHANGED <<pipeline, constructed, tables, args, email_otps,
                       accounts, otp_requests>>

NextAttendance ==
    \/ \E p \in Uploaders : begin_attendance_upload(p)
    \/ \E p \in Uploaders : attendance_lookup(p)
    \/ \E p \in Uploaders : attendance_write(p)
    \/ \E p \in Uploaders : attendance_respond(p)

SpecAttendance == InitData /\ [][NextAttendance]_vars

SameKey(r, s, lookup) == \A f \in lookup : r[f] = s[f]

\* C22: after any interleaving of attendance uploads through the API view and
\* the admin upload, the table holds at most one record per (student, course,
\* date, section).
C22_OneAttendancePerKey ==
    \A r, s \in attendance : SameKey(r, s, AttendanceKey) => r = s

\* Both entry points looked the same key up before either had stored it; one
\* created the record and the other, refused by the database, updated it.
C22_Witness ==
    /\ \A p \in Uploaders : uploads[p].pc = "respond" /\ ~uploads[p].found
                            /\ uploads[p].errors = 0
    /\ uploads["api"].created = 0 /\ uploads["api"].updated = 1
    /\ uploads["admin"].created = 1 /\ uploads["admin"].updated = 0
    /\ Cardinality(attendance) = 1

(***************************************************************************)
(* Submissions stored through the admin site                               *)
(***************************************************************************)
\* The choices of AssignmentSubmission.status.
SubmissionChoices == {"submitted", "late-submitted", "Not Submitted"}

\* AssignmentSubmissionAdmin: the add form of the admin site saves a new
\* AssignmentSubmission row.  The status is one of the choices and the score
\* may be left blank (null=True, blank=True).  The model declares no
\* uniqueness of (assignment, student).
admin_add_submission ==
    \E assignment \in Assignments, score \in {NoValue, Some(0), Some(6)},
       status \in SubmissionChoices :
        LET new == [ student |-> 1, assignment |-> assignment.title,
                     score |-> score, status |-> status ]
        IN  /\ new \notin submissions
            /\ TotalRecords(attendance, submissions, quiz_scores, lab_participation)
                  < MaxRecords
            /\ submissions' = submissions \cup {new}
            /\ call' = [op |-> "admin_add_submission"]
            /\ result' = [status |-> 302]
            /\ UNCHANGED <<pipeline, constructed, args, requests, attendance,
                           quiz_scores, lab_participation>>

NextSubmissions ==
    \/ upload_assignment_scores
    \/ admin_add_submission
    \/ admin_add_quiz_score
    \/ get_dashboard
    \/ get_engagement_details

SpecSubmissions == InitData /\ [][NextSubmissions]_vars

\* The statuses of a submission that was not handed in.
Unsubmitted == {"missing", "Not Submitted"}

\* The submissions of a student for the assignments of the week filter.
SubmissionsInWeek(student, week_number) ==
    {r \in submissions :
        /\ r.student = student
        /\ InWeek(ItemByTitle(Assignments, r.assignment), week_number)}

\* C23 (as stated): a submission with status missing or not-submitted adds
\* nothing to the earned sum and nothing to the possible sum of the assignment
\* percentage, whatever its score: the percentage is the one of the student's
\* other submissions (here all of them scored).
C23_UnsubmittedNotCounted ==
    (DashboardServed
     /\ \A r \in SubmissionsInWeek(call.student_id[1], call.week_number) :
           r.status \notin Unsubmitted => r.score # NoValue) =>
        LET handed_in ==
                {r \in SubmissionsInWeek(call.student_id[1], call.week_number) :
                    r.status \notin Unsubmitted}
        IN  result.engagement_tracker.assignments =
                Round1(percentage(SumOver(SubmissionScore, handed_in),
                                  SumOver(SubmissionMax, handed_in)))

\* C24 (as stated): a submission that is not missing and has a null score
\* adds 0 to the earned sum and its assignment's max_score to the possible sum
\* of the assignment percentage (here with no submission marked as not
\* submitted).
C24_NullScoreCountsAsZero ==
    (DashboardServed
     /\ \A r \in SubmissionsInWeek(call.student_id[1], call.week_number) :
           r.status # "Not Submitted") =>
        LET not_missing ==
                {r \in SubmissionsInWeek(call.student_id[1], call.week_number) :
                    r.status # "missing"}
        IN  result.engagement_tracker.assignments =
                Round1(percentage(SumOver(ScoreOrZero, not_missing),
                                  SumOver(SubmissionMax, not_missing)))

DetailsServed == call.op = "get_engagement_details" /\ result.status = 200

\* C26 (as stated): over the same stored records and for the same student and
\* week filter, the assignment and quiz percentages of the engagement-details
\* breakdown equal those of the dashboard's engagement tracker.
C26_BreakdownMatchesDashboard ==
    DetailsServed =>
        LET engagement ==
                calculate_engagement_metrics(call.student_id[1], call.week_number)
        IN  /\ result.details.assignments.percentage = engagement.assignments
            /\ result.details.quizzes.percentage = engagement.quizzes

\* The records of a table that belong to the week: by their own week_number
\* (attendance) or by the week_number of their item.
OfWeek(week, student) ==
    [ attendance |-> {r \in attendance :
                         r.student = student /\ r.week_number = week},
      submissions |-> {r \in submissions :
                          /\ r.student = student
                          /\ r.status # "missing" /\ r.score # NoValue
                          /\ ItemByTitle(Assignments, r.assignment).week_number = week},
      quiz_scores |-> {r \in quiz_scores :
                          /\ r.student = student
                          /\ ItemByTitle(Quizzes, r.quiz).week_number = week},
      lab_participation |-> {r \in lab_participation :
                          /\ r.student = student
                          /\ ItemByTitle(LabActivities, r.lab).week_number = week} ]

\* C25 (as stated): with a week filter, each of the four engagement
\* percentages is computed only from the records of that week.
C25_WeekFilterOnEveryPercentage ==
    (DashboardServed /\ call.week_number # NoValue) =>
        LET of_week == OfWeek(call.week_number[1], call.student_id[1])
            e == result.engagement_tracker
        IN  /\ e.attendance =
                  Round1(percentage(
                      Cardinality({r \in of_week.attendance : r.status = "present"}),
                      Cardinality(of_week.attendance)))
            /\ e.assignments =
                  Round1(percentage(SumOver(SubmissionScore, of_week.submissions),
                                    SumOver(SubmissionMax, of_week.submissions)))
            /\ e.quizzes =
                  Round1(percentage(SumOver(QuizScoreOf, of_week.quiz_scores),
                                    SumOver(QuizMax, of_week.quiz_scores)))
            /\ e.lab_activity =
                  Round1(percentage(SumOver(LabScore, of_week.lab_participation),
                                    SumOver(LabMax, of_week.lab_participation)))

(***************************************************************************)
(* The level and the reported score of a risk result                       *)
(***************************************************************************)
\* C27 (as stated): in every risk result the risk_level is the level that the
\* thresholds of the path assign to the reported risk_score, the value
\* rounded to two decimals.
C27_LevelOfReportedScore ==
    (PredictCalled \/ FormulaCalled) =>
        result.risk_level = PathLevel(1000 * result.risk_score)

(***************************************************************************)
(* apps/users : registration with an e-mailed one-time password            *)
(*                                                                         *)
(* No transaction spans a request, so the two statements of                *)
(* EmailOTP.create_otp are separate steps and the requests of two clients  *)
(* interleave.  A row of email_otps is                                     *)
(* [email, is_used, expired, temp_data]; its position in the table stands  *)
(* for its primary key, its creation time and its otp_code.  expired says  *)
(* that timezone.now() has passed expires_at; temp_data says that the      *)
(* column holds the registration data.                                     *)
(***************************************************************************)
Emails == {"a@kic.ac.jp", "b@kic.ac.jp"}

MaxOtps == 3

\* EmailOTP.is_valid
is_valid(otp) == ~otp.is_used /\ ~otp.expired

\* EmailOTP.objects.filter(email=email).order_by('-created_at').first(): the
\* position of the row, 0 for None.
latest_otp(email) ==
    LET of_email == {i \in DOMAIN email_otps : email_otps[i].email = email}
    IN  IF of_email = {} THEN 0
        ELSE CHOOSE i \in of_email : \A j \in of_email : j <= i

\* RegisterRequestSerializer.is_valid(): the fields are well formed and, as in
\* the other registration serializers, the email has no account yet.
RegisterRequestSerializer(email, well_formed) ==
    well_formed /\ email \notin accounts

\* VerifyOTPSerializer: validated_data['otp_instance'], the row with the email
\* and the code of the request that is still valid; 0 when is_valid() fails.
VerifyOTPSerializer(email, otp_code) ==
    IF /\ otp_code \in DOMAIN email_otps
       /\ email_otps[otp_code].email = email
       /\ is_valid(email_otps[otp_code])
    THEN otp_code ELSE 0

\* The requests that will still create a row.
Creating == {c \in Clients : otp_requests[c].pc # "idle"}

\* AuthViewSet.register_request, up to the call of EmailOTP.create_otp.
register_request(c) ==
    /\ otp_requests[c].pc = "idle"
    /\ \E email \in Emails, well_formed \in BOOLEAN :
          IF RegisterRequestSerializer(email, well_formed)
          THEN /\ Len(email_otps) + Cardinality(Creating) < MaxOtps
               /\ otp_requests' = [otp_requests EXCEPT ![c] =
                     [ pc |-> "invalidate", op |-> "register_request",
                       email |-> email, temp_data |-> TRUE ]]
               /\ UNCHANGED <<call, result>>
          ELSE /\ call' = [op |-> "register_request", email |-> email]
               /\ result' = [status |-> 400, error |-> "serializer.errors"]
               /\ UNCHANGED otp_requests
    /\ UNCHANGED <<pipeline, constructed, tables, args, uploads, email_otps,
                   accounts>>

\* AuthViewSet.resend_otp, up to the call of EmailOTP.create_otp.
resend_otp(c) ==
    /\ otp_requests[c].pc = "idle"
    /\ \E email \in Emails \cup {""} :
          LET latest == latest_otp(email)
          IN  IF email = ""
              THEN /\ call' = [op |-> "resend_otp", email |-> email]
                   /\ result' = [status |-> 400, error |-> "Email is required"]
                   /\ UNCHANGED otp_requests
              ELSE IF latest = 0 \/ ~email_otps[latest].temp_data
              THEN /\ call' = [op |-> "resend_otp", email |-> email]
                   /\ result' = [ status |-> 400,
                                  error |-> "No pending registration found" ]
                   /\ UNCHANGED otp_requests
              ELSE /\ Len(email_otps) + Cardinality(Creating) < MaxOtps
                   /\ otp_requests' = [otp_requests EXCEPT ![c] =
                         [ pc |-> "invalidate", op |-> "resend_otp",
                           email |-> email,
                           temp_data |-> email_otps[latest].temp_data ]]
                   /\ UNCHANGED <<call, result>>
    /\ UNCHANGED <<pipeline, constructed, tables, args, uploads, email_otps,
                   accounts>>

\* EmailOTP.create_otp, first statement:
\* cls.objects.filter(email=email, is_used=False).update(is_used=True)
create_otp_invalidate(c) ==
    /\ otp_requests[c].pc = "invalidate"
    /\ email_otps' = [i \in DOMAIN email_otps |->
                        IF email_otps[i].email = otp_requests[c].email
                        THEN [email_otps[i] EXCEPT !.is_used = TRUE]
                        ELSE email_otps[i]]
    /\ otp_requests' = [otp_requests EXCEPT ![c].pc = "create"]
    /\ UNCHANGED <<pipeline, constructed, tables, args, call, result, uploads,
                   accounts>>

\* The row cls.objects.create(...) inserts.
new_otp(email, temp_data) ==
    [email |-> email, is_used |-> FALSE, expired |-> FALSE, temp_data |-> temp_data]

\* EmailOTP.create_otp, second statement, then send_otp_email and the
\* Response of the view that called it.
create_otp_create(c) ==
    LET r == otp_requests[c]
    IN  /\ r.pc = "create"
        /\ email_otps' = Append(email_otps, new_otp(r.email, r.temp_data))
        /\ otp_requests' = [otp_requests EXCEPT ![c] = IdleRequest]
        /\ call' = [op |-> r.op, email |-> r.email]
        /\ \E email_sent \in BOOLEAN :
              result' = IF email_sent
                        THEN [status |-> 200, otp |-> Len(email_otps) + 1]
                        ELSE [status |-> 500, otp |-> Len(email_otps) + 1]
        /\ UNCHANGED <<pipeline, constructed, tables, args, uploads, accounts>>

\* AuthViewSet.verify_otp.  User.email is unique: create_user raises when the
\* email has an account, and the except clause answers 500.
verify_otp ==
    \E email \in Emails, otp_code \in 0..MaxOtps :
        LET otp == VerifyOTPSerializer(email, otp_code)
        IN  /\ call' = [op |-> "verify_otp", email |-> email, otp_code |-> otp_code]
            /\ IF otp = 0
               THEN /\ result' = [status |-> 400, error |-> "serializer.errors"]
                    /\ UNCHANGED <<email_otps, accounts>>
               ELSE IF ~email_otps[otp].temp_data
               THEN /\ result' = [ status |-> 400,
                                   error |-> "Registration data not found" ]
                    /\ UNCHANGED <<email_otps, accounts>>
               ELSE IF email \in accounts
               THEN /\ result' = [status |-> 500, error |-> "Failed to create user"]
                    /\ UNCHANGED <<email_otps, accounts>>
               ELSE /\ accounts' = accounts \cup {email}
                    /\ email_otps' = [email_otps EXCEPT ![otp].is_used = TRUE]
                    /\ result' = [status |-> 201, email |-> email]
            /\ UNCHANGED <<pipeline, constructed, tables, args, uploads,
                           otp_requests>>

\* Ten minutes after its creation the oldest row still running expires.
otp_expires ==
    /\ \E i \in DOMAIN email_otps : ~email_otps[i].expired
    /\ LET i == CHOOSE k \in DOMAIN email_otps :
                  /\ ~email_otps[k].expired
                  /\ \A j \in DOMAIN email_otps : j < k => email_otps[j].expired
       IN  email_otps' = [email_otps EXCEPT ![i].expired = TRUE]
    /\ UNCHANGED <<pipeline, constructed, tables, args, call, result, uploads,
                   accounts, otp_requests>>

NextOtp ==
    \/ \E c \in Clients : register_request(c)
    \/ \E c \in Clients : resend_otp(c)
    \/ \E c \in Clients : create_otp_invalidate(c)
    \/ \E c \in Clients : create_otp_create(c)
    \/ verify_otp
    \/ otp_expires

SpecOtp == InitData /\ [][NextOtp]_vars

\* The rows of an email that are not used.
Unused(table, email) ==
    {i \in DOMAIN table : table[i].email = email /\ ~table[i].is_used}

\* C28 (as stated): through any interleaving of register_request and
\* resend_otp, at most one EmailOTP per email has is_used = False, and is_used
\* never goes from True back to False.
C28_OneUnusedOtpPerEmail ==
    [][ /\ \A email \in Emails : Cardinality(Unused(email_otps', email)) <= 1
        /\ \A i \in DOMAIN email_otps :
              email_otps[i].is_used => email_otps'[i].is_used ]_vars

\* C29 (as stated): once a successful verify_otp has created the user of an
\* email, a resend_otp for that email answers that no registration is pending
\* and goes on to create no OTP.
C29_NoResendAfterVerification ==
    [][ \A c \in Clients :
          (otp_requests[c].pc = "idle" /\ otp_requests'[c].pc = "invalidate")
             => (otp_requests'[c].op = "resend_otp"
                    => otp_requests'[c].email \notin accounts) ]_vars

(***************************************************************************)
(* The accounting of a CSV upload                                          *)
(***************************************************************************)
\* C30 (as stated): an upload whose header has the required columns accounts
\* for every data row exactly once, created + updated + errors = rows, and a
\* bad row gives an error entry without aborting the upload.
C30_EveryRowAccounted ==
    call.op \in {"upload_attendance", "upload_lab_scores"} =>
        /\ result.status = 200
        /\ result.created + result.updated + result.errors = result.rows
=============================================================================
